---- MODULE Spec2Model ----
(***************************************************************************)
(* Reconciliation of Postgres custom resources by the Azure provider of    *)
(* the cloud-resource-operator.                                            *)
(*                                                                         *)
(* The provider (CreatePostgres, DeletePostgres, GetReconcileTime, the     *)
(* authentication through process environment variables, the Azure        *)
(* resource client) is translated from the source.  The controller's      *)
(* reconcile function, resources.CreateFinalizer and                       *)
(* resources.GetConfigMapOrDefault are not part of the source tree; they   *)
(* are modelled from the specification (sections 4.1, 4.3 and 4.4).        *)
(***************************************************************************)
EXTENDS Integers, Sequences, FiniteSets, TLC

(***************************************************************************)
(* Bounds of the model.                                                    *)
(***************************************************************************)
\* reconciles the work queue delivers per object
MaxReconciles == 2
\* external edits of the cluster configuration ConfigMap, and of the
\* strategies ConfigMap
MaxConfigEdits == 1
\* providers in a list handed to the provider selection
MaxProviders == 3
\* characters of a value of ENV_FORCE_RECONCILE_TIMEOUT
MaxEnvLen == 2
\* readings of crypto/rand told apart in a call of GeneratePassword
MaxDraws == 2

(***************************************************************************)
(* Program constants.                                                      *)
(***************************************************************************)
\* resources.SuccessReconcileTime = time.Second * 60
SuccessReconcileTime == 60
\* A slip of the error interval: the success interval in its place.
ErrorReconcileTime_AsSuccess == SuccessReconcileTime
\* resources.ErrorReconcileTime = time.Second * 30
ErrorReconcileTime == 30
\* the default handed to GetForcedReconcileTimeOrDefault by GetReconcileTime
ProviderReconcileTime == 30
\* nanoseconds in time.Second
NanosPerSecond == 1000000000
\* defaultAzurePostgresPort
defaultAzurePostgresPort == 5432

DefaultFinalizer        == "finalizers.cloud-resources-operator.integreatly.org"
azureServiceEndpointSQL == "Microsoft.Sql"
defaultAzurePostgresUser == "postgres"
postgresProviderName    == "azure-postgres"

(***************************************************************************)
(* Values.                                                                 *)
(***************************************************************************)
\* the Postgres custom resources reconciled by the process
Objs == {"pg1", "pg2"}

\* absent string value: no strategy, no secret, no provider, no client yet
NIL == "nil"

\* absent structured value: a nil pointer, a missing object, no result yet
Nil == [nil |-> TRUE]

\* Azure subscriptions named by the cluster configuration
Subscriptions == {"subA", "subB"}

\* passwords resources.GeneratePassword can return
Passwords == {"pwX", "pwY"}

\* the fully qualified domain name Azure gives the server called name
Fqdn(name) ==
    IF name = "pg1" THEN "pg1.postgres.database.azure.com"
    ELSE "pg2.postgres.database.azure.com"

\* a time.Duration, kept as whole seconds and the remaining nanoseconds
Seconds(n) == [sec |-> n, nsec |-> 0]
Duration(ns) == [sec |-> ns \div NanosPerSecond, nsec |-> ns % NanosPerSecond]

(***************************************************************************)
(* strconv.ParseInt(s, 10, 64) on a string given as a sequence of          *)
(* characters: an optional sign followed by at least one decimal digit.    *)
(***************************************************************************)
Digits == <<"0", "1", "2", "3", "4", "5", "6", "7", "8", "9">>

IsDigit(c) == \E i \in 1..10 : Digits[i] = c

DigitValue(c) == (CHOOSE i \in 1..10 : Digits[i] = c) - 1

RECURSIVE DigitsValue(_)
DigitsValue(s) ==
    IF s = <<>> THEN 0
    ELSE 10 * DigitsValue(SubSeq(s, 1, Len(s) - 1)) + DigitValue(s[Len(s)])

ParseInt(s) ==
    LET signed == Len(s) > 0 /\ s[1] \in {"+", "-"}
        body   == IF signed THEN Tail(s) ELSE s
    IN  IF body = <<>> \/ \E i \in 1..Len(body) : ~IsDigit(body[i])
        THEN [err |-> TRUE, val |-> 0]
        ELSE [err |-> FALSE,
              val |-> IF signed /\ s[1] = "-" THEN 0 - DigitsValue(body)
                      ELSE DigitsValue(body)]

\* values the ENV_FORCE_RECONCILE_TIMEOUT variable has when the process starts
\* (set is the second result of os.LookupEnv)
ForceEnvValues ==
    {[set |-> FALSE, value |-> <<>>]}
        \cup [set : {TRUE}, value : {<<"4", "5">>, <<"6", "0", "s">>}]

(***************************************************************************)
(* resources.GetForcedReconcileTimeOrDefault(defaultTo), reading the       *)
(* environment variable force as os.LookupEnv returns it.                  *)
(***************************************************************************)
\* A slip of the parse failure branch: the zero value of rt is returned.
GetForcedReconcileTimeOrDefault_ZeroOnError(force, defaultTo) ==
    IF force.set
    THEN IF ParseInt(force.value).err THEN Duration(0)
         ELSE Duration(ParseInt(force.value).val)
    ELSE defaultTo

GetForcedReconcileTimeOrDefault(force, defaultTo) ==
    IF force.set
    THEN IF ParseInt(force.value).err THEN defaultTo
         ELSE Duration(ParseInt(force.value).val)
    ELSE defaultTo

\* A slip of the default: the package's success interval instead of the
\* interval the provider passes.
GetReconcileTime_SuccessDefault(force) ==
    GetForcedReconcileTimeOrDefault(force, Seconds(SuccessReconcileTime))

\* PostgresProvider.GetReconcileTime
GetReconcileTime(force) ==
    GetForcedReconcileTimeOrDefault(force, Seconds(ProviderReconcileTime))

\* A slip of the provider: it claims every strategy.
SupportsStrategy_Any(s) == TRUE

\* PostgresProvider.SupportsStrategy
SupportsStrategy(s) == s = "azure"


(***************************************************************************)
(* State.                                                                  *)
(***************************************************************************)
VARIABLES
    obj,         \* the Postgres custom resources held by the API server
    credSec,     \* password of each <name>-azure-postgres-credentials secret
    targetSec,   \* the secret the reconciler fills with the deployment details
    clusterCfg,  \* the cluster configuration ConfigMap
    cfgEdits,    \* external edits of that ConfigMap so far
    strategy,    \* strategy name the configuration maps the resources' tier to
    env,         \* environment variables of the operator process
    azure,       \* servers, worker subnet and vnet rules held by Azure, how
                 \* many server creations Azure carried out per name, and
                 \* the administrator password each server was created with
    pc,          \* position of each object's reconcile
    loc,         \* local variables of each in-flight reconcile
    result,      \* what each object's last reconcile returned
    nRec,        \* reconciles started per object
    prev,        \* what the previous reconcile of each object left behind
    crashed,     \* the operator process was ended by a panic
    store,       \* the strategies ConfigMap read by ReadStorageStrategy, the
                 \* external edits of it so far, and what was last read
    call         \* the last call of a helper on its own: inputs and results

vars == <<obj, credSec, targetSec, clusterCfg, cfgEdits, strategy, env, azure,
          pc, loc, result, nRec, prev, crashed, store, call>>

\* the state of the reconciles, left alone by the helper calls
reconcileVars == <<obj, credSec, targetSec, strategy, env, azure, pc, result,
                   nRec, prev, crashed>>

\* contents the cluster configuration ConfigMap can have ("config" key)
ClusterCfgValues ==
    {Nil, [wellFormed |-> FALSE, SubscriptionID |-> ""]}
        \cup [wellFormed : {TRUE}, SubscriptionID : Subscriptions]

\* service endpoints the worker node subnet starts with
InitialEndpoints == {<<"Microsoft.Storage">>, <<"Microsoft.Storage", "Microsoft.Sql">>}

LocInit ==
    [calls |-> <<>>, fault |-> FALSE, external |-> FALSE, cfgSub |-> "",
     clientSub |-> NIL, pass |-> "", host |-> "", endpoints |-> <<>>,
     inst |-> Nil, msg |-> "", err |-> FALSE, finalizerFailed |-> FALSE,
     serverAtList |-> FALSE, azureFailed |-> FALSE, panicAt |-> "",
     found |-> FALSE, strategyReadFailed |-> FALSE, cfgMalformed |-> FALSE,
     generateFailed |-> FALSE]

Init ==
    /\ obj = [o \in Objs |-> [exists |-> TRUE, deleting |-> FALSE,
                              finalizers |-> {}, phase |-> NIL]]
    /\ credSec = [o \in Objs |-> NIL]
    /\ targetSec = [o \in Objs |-> Nil]
    /\ clusterCfg \in ClusterCfgValues
    /\ cfgEdits = 0
    /\ strategy \in {"azure", "aws", NIL}
    /\ env \in [sub : {""}, force : ForceEnvValues,
                 tag : {[set |-> FALSE, value |-> ""]}]
    /\ azure \in [servers : {{}}, endpoints : InitialEndpoints, rules : {{}},
                  created : {[o \in Objs |-> 0]},
                  admin : {[o \in Objs |-> NIL]}]
    /\ pc = [o \in Objs |-> "idle"]
    /\ loc = [o \in Objs |-> LocInit]
    /\ result = [o \in Objs |-> Nil]
    /\ nRec = [o \in Objs |-> 0]
    /\ prev = [o \in Objs |-> Nil]
    /\ crashed = FALSE
    /\ store = [cm |-> Nil, edits |-> 0, seen |-> Nil]
    /\ call = [fn |-> "none"]

(***************************************************************************)
(* Helpers of the steps.                                                   *)
(***************************************************************************)
\* operations that change something outside the process
ProvisioningCalls ==
    {"credentials.create", "azure.createServer", "azure.updateSubnet",
     "azure.createVnetRule"}

Called(o, op) == \E i \in 1..Len(loc[o].calls) : loc[o].calls[i] = op

\* the step of o's reconcile at position from moves to position to
Goto(o, to) == pc' = [pc EXCEPT ![o] = to]

SetLoc(o, l) == loc' = [loc EXCEPT ![o] = l]

Log(l, op) == [l EXCEPT !.calls = Append(@, op)]

Fault(l, failed) == [l EXCEPT !.fault = @ \/ failed]

\* a call to Azure returned an error
AzureFault(l, failed) ==
    [l EXCEPT !.fault = @ \/ failed, !.azureFailed = @ \/ failed]

\* a Go panic: nothing recovers it, the operator process ends
Panic(o) ==
    /\ crashed' = TRUE
    /\ pc' = [pc EXCEPT ![o] = "panicked"]

\* the statement that panicked
PanicAt(l, site) == [l EXCEPT !.panicAt = site]

\* CreatePostgres returns (inst, msg, err) to the reconciler
Return(l, inst, msg, err) == [l EXCEPT !.inst = inst, !.msg = msg, !.err = err]


(***************************************************************************)
(* Library and missing-source helpers, by what they do.                    *)
(***************************************************************************)
\* resources.CreateFinalizer: adds the finalizer when it is absent and
\* persists the object only when the set changed; updateOK is whether that
\* update reaches the API server.
CreateFinalizer(finalizers, name, updateOK) ==
    IF name \in finalizers
    THEN [err |-> FALSE, persisted |-> FALSE, finalizers |-> finalizers]
    ELSE IF updateOK
         THEN [err |-> FALSE, persisted |-> TRUE,
               finalizers |-> finalizers \cup {name}]
         ELSE [err |-> TRUE, persisted |-> FALSE, finalizers |-> finalizers]

\* the ConfigMap buildDefaultConfigMap returns: no data, so Data["config"]
\* is the empty string, which is no JSON document
buildDefaultConfigMap == [wellFormed |-> FALSE, SubscriptionID |-> ""]

\* ConfigMapConfigManager.GetClusterConfig through
\* resources.GetConfigMapOrDefault: the stored ConfigMap, the default when
\* there is none, and an error when the read fails.  What pointer comes with
\* the error is not fixed by the specification: nilOnErr chooses between nil
\* and the default.
GetClusterConfig(stored, readOK, nilOnErr) ==
    IF readOK
    THEN [err |-> FALSE, cm |-> IF stored = Nil THEN buildDefaultConfigMap ELSE stored]
    ELSE [err |-> TRUE, cm |-> IF nilOnErr THEN Nil ELSE buildDefaultConfigMap]

\* json.Unmarshal of the "config" payload into a ClusterConfig or an
\* AuthCredentials: the fields of a well-formed document, the zero value and
\* an error otherwise
JsonUnmarshal(payload) ==
    IF payload.wellFormed
    THEN [err |-> FALSE, SubscriptionID |-> payload.SubscriptionID]
    ELSE [err |-> TRUE, SubscriptionID |-> ""]

\* errors.Wrap(err, msg) of github.com/pkg/errors: nil for a nil error
ErrorsWrap(isErr) == isErr

\* controllerutil.CreateOrUpdate of a secret with a mutate function that
\* changes nothing: creates desired when there is none, leaves an existing
\* secret as it is
CreateOrUpdate_CreateOnly(existing, desired, getOK, writeOK) ==
    IF writeOK /\ existing = NIL
    THEN [err |-> FALSE, op |-> "created", stored |-> desired]
    ELSE [err |-> TRUE, op |-> "unchanged", stored |-> existing]

\* A slip of the mutate function: it copies the new data into the secret
\* found, so an existing secret is updated.
CreateOrUpdate_Overwrite(existing, desired, getOK, writeOK) ==
    IF ~getOK \/ ~writeOK
    THEN [err |-> TRUE, op |-> "unchanged", stored |-> existing]
    ELSE [err |-> FALSE, op |-> IF existing = NIL THEN "created" ELSE "updated",
          stored |-> desired]

CreateOrUpdate(existing, desired, getOK, writeOK) ==
    IF ~getOK THEN [err |-> TRUE, op |-> "unchanged", stored |-> existing]
    ELSE IF existing # NIL
         THEN [err |-> FALSE, op |-> "unchanged", stored |-> existing]
         ELSE IF writeOK
              THEN [err |-> FALSE, op |-> "created", stored |-> desired]
              ELSE [err |-> TRUE, op |-> "unchanged", stored |-> existing]

(***************************************************************************)
(* PostgresProvider.CreatePostgres, statement by statement.                *)
(***************************************************************************)
\* where CreatePostgres goes after resources.CreateFinalizer returned
AfterFinalizer_IgnoreError(err) == "cp_config"

AfterFinalizer(err) == IF err THEN "returned" ELSE "cp_config"

\* buildDefaultPostgresSecret: nil when the password generation failed
buildDefaultPostgresSecret(generated) ==
    IF generated = NIL THEN NIL ELSE generated

\* the loop over the servers found: the host of the one named like the
\* resource, "" when there is none
FindInstance_NeverFound(servers, name) == ""

FindInstance(servers, name) ==
    IF name \in servers THEN Fqdn(name) ELSE ""

\* the loop over the subnet's service endpoints and the append
HasSqlEndpoint(endpoints) ==
    \E i \in 1..Len(endpoints) : endpoints[i] = azureServiceEndpointSQL

\* A slip of the test: the endpoint is appended whether present or not.
AddSqlEndpoint_Always(endpoints) == Append(endpoints, azureServiceEndpointSQL)

AddSqlEndpoint(endpoints) ==
    IF HasSqlEndpoint(endpoints) THEN endpoints
    ELSE Append(endpoints, azureServiceEndpointSQL)

\* the PostgresInstance returned on the last line
DeploymentDetails(pass, host) ==
    [Username |-> defaultAzurePostgresUser, Password |-> pass, Host |-> host,
     Database |-> "postgres", Port |-> defaultAzurePostgresPort]


\* A slip of the failure path: the error is returned without a requeue.
FailureResult_NoRequeue ==
    [requeue |-> FALSE, after |-> Seconds(0), err |-> TRUE]

\* what reconcile returns when a step failed
FailureResult ==
    [requeue |-> TRUE, after |-> Seconds(ErrorReconcileTime), err |-> TRUE]

\* the reconcile of o ends with an error: the failure is written to the
\* status and a retry after the short interval is returned
FailReconcile(o, l) ==
    /\ SetLoc(o, l)
    /\ obj' = [obj EXCEPT ![o].phase = "Failed"]
    /\ result' = [result EXCEPT ![o] = FailureResult]
    /\ Goto(o, "done")
    /\ UNCHANGED crashed

\* handle provider-specific finalizer
CP_Finalizer(o) ==
    /\ ~crashed /\ pc[o] = "cp_finalizer"
    /\ \E updateOK \in BOOLEAN :
         LET r  == CreateFinalizer(obj[o].finalizers, DefaultFinalizer, updateOK)
             l1 == IF r.persisted THEN Log(loc[o], "finalizer.persist") ELSE loc[o]
             l2 == Fault([l1 EXCEPT !.finalizerFailed = r.err], ~updateOK)
         IN  /\ obj' = [obj EXCEPT ![o].finalizers = r.finalizers]
             /\ Goto(o, AfterFinalizer(r.err))
             /\ SetLoc(o, IF r.err
                          THEN Return(l2, Nil, "failed to set finalizer", TRUE)
                          ELSE l2)
    /\ UNCHANGED <<credSec, targetSec, clusterCfg, cfgEdits, strategy, env,
                   azure, result, nRec, prev, crashed>>
    /\ UNCHANGED <<store, call>>

\* retrieve and parse the cluster configuration ConfigMap; a read error is
\* logged, and the ConfigMap pointer is dereferenced whatever it is
CP_ClusterConfig(o) ==
    /\ ~crashed /\ pc[o] = "cp_config"
    /\ \E readOK \in BOOLEAN, nilOnErr \in BOOLEAN :
         LET r == GetClusterConfig(clusterCfg, readOK, nilOnErr)
         IN  IF r.cm = Nil
             THEN /\ Panic(o)
                  /\ SetLoc(o, PanicAt(Fault(loc[o], TRUE), "clusterConfigMap.Data"))
             ELSE /\ Goto(o, "cp_authenv")
                  /\ SetLoc(o, Fault([loc[o] EXCEPT
                                 !.cfgSub = JsonUnmarshal(r.cm).SubscriptionID,
                                 !.cfgMalformed = readOK /\ clusterCfg # Nil
                                                  /\ JsonUnmarshal(r.cm).err],
                               r.err))
                  /\ UNCHANGED crashed
    /\ UNCHANGED <<obj, credSec, targetSec, clusterCfg, cfgEdits, strategy, env,
                   azure, result, nRec, prev>>
    /\ UNCHANGED <<store, call>>

\* AuthCredentials.authEnvVars: the credentials parsed from the ConfigMap are
\* written to the environment variables of the process
CP_AuthEnvVars(o) ==
    /\ ~crashed /\ pc[o] = "cp_authenv"
    /\ env' = [env EXCEPT !.sub = loc[o].cfgSub]
    /\ Goto(o, "cp_client")
    /\ UNCHANGED <<obj, credSec, targetSec, clusterCfg, cfgEdits, strategy,
                   azure, loc, result, nRec, prev, crashed>>
    /\ UNCHANGED <<store, call>>

\* auth.NewAuthorizerFromCLI, panicking on its error, then
\* NewAzureResourceClient(ctx, os.Getenv("AZURE_SUBSCRIPTION_ID"), authorizer)
CP_ResourceClient(o) ==
    /\ ~crashed /\ pc[o] = "cp_client"
    /\ \E authOK \in BOOLEAN :
         IF authOK
         THEN /\ SetLoc(o, [loc[o] EXCEPT !.clientSub = env.sub])
              /\ Goto(o, "cp_secret")
              /\ UNCHANGED crashed
         ELSE /\ SetLoc(o, PanicAt(Fault(loc[o], TRUE), "panic(err)"))
              /\ Panic(o)
    /\ UNCHANGED <<obj, credSec, targetSec, clusterCfg, cfgEdits, strategy, env,
                   azure, result, nRec, prev>>
    /\ UNCHANGED <<store, call>>

\* where CreatePostgres goes after the CreateOrUpdate of the credentials secret
AfterSecret(err) == IF err THEN "returned" ELSE "cp_getsecret"

\* create credentials secret
CP_CredentialsSecret(o) ==
    /\ ~crashed /\ pc[o] = "cp_secret"
    /\ \E generated \in Passwords \cup {NIL}, getOK \in BOOLEAN, writeOK \in BOOLEAN :
         LET sec == buildDefaultPostgresSecret(generated)
             r   == CreateOrUpdate(credSec[o], sec, getOK, writeOK)
             l0  == IF getOK /\ credSec[o] = NIL
                    THEN Log(loc[o], "credentials.create") ELSE loc[o]
             l1  == IF r.op = "created" THEN Log(l0, "credentials.created") ELSE l0
             l2  == Fault(l1, ~getOK \/ ~writeOK)
         IN  IF sec = NIL
             THEN \* CreateOrUpdate reads the name of a nil *v1.Secret
                  /\ Panic(o)
                  /\ SetLoc(o, PanicAt(Fault([loc[o] EXCEPT !.generateFailed = TRUE],
                                            TRUE),
                                      "CreateOrUpdate(nil)"))
                  /\ UNCHANGED credSec
             ELSE /\ credSec' = [credSec EXCEPT ![o] = r.stored]
                  /\ Goto(o, AfterSecret(r.err))
                  /\ SetLoc(o, IF r.err
                               THEN Return(l2, Nil, "failed to create or update secret", TRUE)
                               ELSE l2)
                  /\ UNCHANGED crashed
    /\ UNCHANGED <<obj, targetSec, clusterCfg, cfgEdits, strategy, env, azure,
                   result, nRec, prev>>
    /\ UNCHANGED <<store, call>>

\* retrieve postgres user password from created credentials secret
CP_GetPassword(o) ==
    /\ ~crashed /\ pc[o] = "cp_getsecret"
    /\ \E getOK \in BOOLEAN :
         LET pass == credSec[o]
         IN  IF ~getOK
             THEN /\ SetLoc(o, Return(Fault(loc[o], TRUE), Nil,
                                      "failed to retrieve rds credential secret",
                                      ErrorsWrap(TRUE)))
                  /\ Goto(o, "returned")
             ELSE IF pass = ""
             THEN \* err is the nil error of CreateOrUpdate here
                  /\ SetLoc(o, Return(loc[o], Nil, "unable to retrieve rds password",
                                      ErrorsWrap(FALSE)))
                  /\ Goto(o, "returned")
             ELSE /\ SetLoc(o, [loc[o] EXCEPT !.pass = pass])
                  /\ Goto(o, "cp_list")
    /\ UNCHANGED <<obj, credSec, targetSec, clusterCfg, cfgEdits, strategy, env,
                   azure, result, nRec, prev, crashed>>
    /\ UNCHANGED <<store, call>>

\* check if postgres instance already exists; the error of the list call is
\* logged and the nil Value of the empty result is dereferenced
CP_ListInstances(o) ==
    /\ ~crashed /\ pc[o] = "cp_list"
    /\ \E listOK \in BOOLEAN :
         IF listOK
         THEN /\ SetLoc(o, [Log(loc[o], "azure.listServers") EXCEPT
                              !.host = FindInstance(azure.servers, o),
                              !.serverAtList = o \in azure.servers])
              /\ Goto(o, "cp_create")
              /\ UNCHANGED crashed
         ELSE /\ SetLoc(o, PanicAt(AzureFault(Log(loc[o], "azure.listServers"), TRUE),
                                "*foundInstances.Value"))
              /\ Panic(o)
    /\ UNCHANGED <<obj, credSec, targetSec, clusterCfg, cfgEdits, strategy, env,
                   azure, result, nRec, prev>>
    /\ UNCHANGED <<store, call>>

\* create postgres instance if it doesn't already exist; the error of the
\* create call is logged and the nil ServerProperties is dereferenced
CP_CreateInstance(o) ==
    /\ ~crashed /\ pc[o] = "cp_create"
    /\ IF loc[o].host = ""
       THEN \E createOK \in BOOLEAN :
              IF createOK
              THEN /\ azure' = [azure EXCEPT !.servers = @ \cup {o},
                                            !.created[o] = @ + 1,
                                            !.admin[o] = loc[o].pass]
                   /\ SetLoc(o, [Log(loc[o], "azure.createServer") EXCEPT
                                   !.host = Fqdn(o)])
                   /\ Goto(o, "cp_getsubnet")
                   /\ UNCHANGED crashed
              ELSE /\ SetLoc(o, PanicAt(AzureFault(Log(loc[o], "azure.createServer"), TRUE),
                                     "*postgresServer.ServerProperties"))
                   /\ Panic(o)
                   /\ UNCHANGED azure
       ELSE /\ Goto(o, "cp_getsubnet")
            /\ UNCHANGED <<azure, loc, crashed>>
    /\ UNCHANGED <<obj, credSec, targetSec, clusterCfg, cfgEdits, strategy, env,
                   result, nRec, prev>>
    /\ UNCHANGED <<store, call>>

\* retrieve worker node subnet and add the Microsoft.Sql service endpoint if
\* not present; the error of the read is logged and the nil
\* SubnetPropertiesFormat is dereferenced
CP_GetSubnet(o) ==
    /\ ~crashed /\ pc[o] = "cp_getsubnet"
    /\ \E getOK \in BOOLEAN :
         IF getOK
         THEN /\ SetLoc(o, [Log(loc[o], "azure.getSubnet") EXCEPT
                              !.endpoints = AddSqlEndpoint(azure.endpoints)])
              /\ Goto(o, "cp_updsubnet")
              /\ UNCHANGED crashed
         ELSE /\ SetLoc(o, PanicAt(AzureFault(Log(loc[o], "azure.getSubnet"), TRUE),
                                "*workerNodeSubnetConfig.SubnetPropertiesFormat"))
              /\ Panic(o)
    /\ UNCHANGED <<obj, credSec, targetSec, clusterCfg, cfgEdits, strategy, env,
                   azure, result, nRec, prev>>
    /\ UNCHANGED <<store, call>>

\* update worker node subnet with modified configs; an error is logged
CP_UpdateSubnet(o) ==
    /\ ~crashed /\ pc[o] = "cp_updsubnet"
    /\ \E updateOK \in BOOLEAN :
         /\ azure' = IF updateOK THEN [azure EXCEPT !.endpoints = loc[o].endpoints]
                     ELSE azure
         /\ SetLoc(o, AzureFault(Log(loc[o], "azure.updateSubnet"), ~updateOK))
    /\ Goto(o, "cp_vnetrule")
    /\ UNCHANGED <<obj, credSec, targetSec, clusterCfg, cfgEdits, strategy, env,
                   result, nRec, prev, crashed>>
    /\ UNCHANGED <<store, call>>

\* create postgres virtual network rule; an error is logged; then return the
\* postgres instance configurations with a nil error
CP_VnetRule(o) ==
    /\ ~crashed /\ pc[o] = "cp_vnetrule"
    /\ \E ruleOK \in BOOLEAN :
         /\ azure' = IF ruleOK THEN [azure EXCEPT !.rules = @ \cup {o}] ELSE azure
         /\ SetLoc(o, Return(AzureFault(Log(loc[o], "azure.createVnetRule"), ~ruleOK),
                             DeploymentDetails(loc[o].pass, loc[o].host),
                             "completed", FALSE))
    /\ Goto(o, "returned")
    /\ UNCHANGED <<obj, credSec, targetSec, clusterCfg, cfgEdits, strategy, env,
                   result, nRec, prev, crashed>>
    /\ UNCHANGED <<store, call>>

\* PostgresProvider.DeletePostgres: panic("implement me")
DP_Delete(o) ==
    /\ ~crashed /\ pc[o] = "dp_delete"
    /\ SetLoc(o, PanicAt(Log(loc[o], "provider.delete"), "panic(implement me)"))
    /\ Panic(o)
    /\ UNCHANGED <<obj, credSec, targetSec, clusterCfg, cfgEdits, strategy, env,
                   azure, result, nRec, prev>>
    /\ UNCHANGED <<store, call>>


(***************************************************************************)
(* The controller's reconcile, after section 4.3 of the specification; its *)
(* finalizer step is the first statement of the provider's Create.         *)
(***************************************************************************)
\* the providers handed to reconcile, in order
ProviderList == <<postgresProviderName>>

\* the providers of the source, by name: the Azure provider, its earlier
\* variant, and the provider the controller test registers
earlierProviderName == "Azure Postgres Provider"
testProviderName    == "test"
Providers == {postgresProviderName, earlierProviderName, testProviderName}

\* SupportsStrategy of the provider called p
ProviderSupports(p, s) ==
    IF p = testProviderName THEN s = "test" ELSE SupportsStrategy(s)

\* A slip of the selection: the last match wins.
SelectProviderIndex_Last(list, s) ==
    LET matching == {i \in 1..Len(list) : ProviderSupports(list[i], s)}
    IN  IF matching = {} THEN 0
        ELSE CHOOSE i \in matching : \A j \in matching : i >= j

\* the place in the list of the first provider that supports the strategy,
\* 0 if none does
SelectProviderIndex(list, s) ==
    LET matching == {i \in 1..Len(list) : ProviderSupports(list[i], s)}
    IN  IF matching = {} THEN 0
        ELSE CHOOSE i \in matching : \A j \in matching : i <= j

\* the first provider of the list that supports the strategy, NIL if none
SelectProvider(list, s) ==
    IF SelectProviderIndex(list, s) = 0 THEN NIL
    ELSE list[SelectProviderIndex(list, s)]

\* what a finished reconcile leaves behind, for the next one to compare with
Snapshot(o) ==
    [phase |-> obj[o].phase, target |-> targetSec[o],
     clean |-> ~loc[o].fault /\ ~loc[o].external]

\* A slip of the load step: not found handled like a failed step.
NotFoundResult_Retry ==
    [requeue |-> TRUE, after |-> Seconds(ErrorReconcileTime), err |-> TRUE]

\* what reconcile returns when the object is not found
NotFoundResult == [requeue |-> FALSE, after |-> Seconds(0), err |-> FALSE]

\* 1. load the object; not found ends the reconcile with nothing to do
ReconcileLoad(o) ==
    /\ ~crashed
    /\ pc[o] = "idle" \/ (pc[o] = "done" /\ result[o].requeue)
    /\ nRec[o] < MaxReconciles
    /\ nRec' = [nRec EXCEPT ![o] = @ + 1]
    /\ prev' = [prev EXCEPT ![o] = IF pc[o] = "done" THEN Snapshot(o) ELSE Nil]
    /\ SetLoc(o, [LocInit EXCEPT !.found = obj[o].exists])
    /\ IF obj[o].exists
       THEN /\ Goto(o, "strategy")
            /\ UNCHANGED result
       ELSE /\ Goto(o, "done")
            /\ result' = [result EXCEPT ![o] = NotFoundResult]
    /\ UNCHANGED <<obj, credSec, targetSec, clusterCfg, cfgEdits, strategy, env,
                   azure, crashed>>
    /\ UNCHANGED <<store, call>>

\* 4. resolve the strategy of the object's tier and the provider for it, then
\* 2./3. take the deletion branch or the creation branch
ReconcileStrategy(o) ==
    /\ ~crashed /\ pc[o] = "strategy"
    /\ \E readOK \in BOOLEAN :
         LET l == Fault([loc[o] EXCEPT !.strategyReadFailed = ~readOK], ~readOK)
         IN  IF ~readOK \/ strategy = NIL
                \/ SelectProvider(ProviderList, strategy) = NIL
             THEN FailReconcile(o, l)
             ELSE /\ SetLoc(o, l)
                  /\ Goto(o, IF obj[o].deleting THEN "dp_delete" ELSE "cp_finalizer")
                  /\ UNCHANGED <<obj, result, crashed>>
    /\ UNCHANGED <<credSec, targetSec, clusterCfg, cfgEdits, strategy, env, azure,
                   nRec, prev>>
    /\ UNCHANGED <<store, call>>

\* 5./6. the provider's Create returned: an error fails the reconcile, a
\* success is followed by the write of the deployment details to the target
\* secret.  What the reconcile does with a nil instance that comes without
\* an error is not fixed by the specification: it fails or dereferences it.
ReconcileMaterialize(o) ==
    /\ ~crashed /\ pc[o] = "returned"
    /\ IF loc[o].err
       THEN /\ FailReconcile(o, loc[o])
            /\ UNCHANGED targetSec
       ELSE IF loc[o].inst = Nil
       THEN \/ /\ FailReconcile(o, loc[o])
               /\ UNCHANGED targetSec
            \/ /\ Panic(o)
               /\ SetLoc(o, PanicAt(loc[o], "instance.DeploymentDetails"))
               /\ UNCHANGED <<obj, targetSec, result>>
       ELSE \E writeOK \in BOOLEAN :
              IF writeOK
              THEN /\ targetSec' = [targetSec EXCEPT ![o] = loc[o].inst]
                   /\ SetLoc(o, Log(loc[o], "target.write"))
                   /\ Goto(o, "status")
                   /\ UNCHANGED <<obj, result, crashed>>
              ELSE /\ FailReconcile(o, Fault(Log(loc[o], "target.write"), TRUE))
                   /\ UNCHANGED targetSec
    /\ UNCHANGED <<credSec, clusterCfg, cfgEdits, strategy, env, azure, nRec, prev>>
    /\ UNCHANGED <<store, call>>

\* 7./8. persist the success phase and return the provider's reconcile time
ReconcileStatus(o) ==
    /\ ~crashed /\ pc[o] = "status"
    /\ \E updateOK \in BOOLEAN :
         IF updateOK
         THEN /\ obj' = [obj EXCEPT ![o].phase = "Complete"]
              /\ SetLoc(o, Log(loc[o], "status.persist"))
              /\ result' = [result EXCEPT ![o] =
                     [requeue |-> TRUE, after |-> GetReconcileTime(env.force),
                      err |-> FALSE]]
         ELSE /\ SetLoc(o, Fault(loc[o], TRUE))
              /\ result' = [result EXCEPT ![o] = FailureResult]
              /\ UNCHANGED obj
    /\ Goto(o, "done")
    /\ UNCHANGED <<credSec, targetSec, clusterCfg, cfgEdits, strategy, env, azure,
                   nRec, prev, crashed>>
    /\ UNCHANGED <<store, call>>

(***************************************************************************)
(* What happens outside the operator.                                      *)
(***************************************************************************)
\* a user deletes the object: the API server removes it at once when it has
\* no finalizer and sets its deletion timestamp otherwise
UserDelete(o) ==
    /\ ~crashed
    /\ obj[o].exists /\ ~obj[o].deleting
    /\ obj' = [obj EXCEPT ![o] =
           IF @.finalizers = {} THEN [@ EXCEPT !.exists = FALSE]
           ELSE [@ EXCEPT !.deleting = TRUE]]
    /\ SetLoc(o, [loc[o] EXCEPT !.external = TRUE])
    /\ UNCHANGED <<credSec, targetSec, clusterCfg, cfgEdits, strategy, env, azure,
                   pc, result, nRec, prev, crashed>>
    /\ UNCHANGED <<store, call>>

\* an administrator rewrites the cluster configuration ConfigMap
EditClusterConfig ==
    /\ ~crashed
    /\ cfgEdits < MaxConfigEdits
    /\ cfgEdits' = cfgEdits + 1
    /\ \E c \in ClusterCfgValues \ {clusterCfg} : clusterCfg' = c
    /\ loc' = [o \in Objs |-> [loc[o] EXCEPT !.external = TRUE]]
    /\ UNCHANGED <<obj, credSec, targetSec, strategy, env, azure, pc, result,
                   nRec, prev, crashed>>
    /\ UNCHANGED <<store, call>>

\* a user blanks the password of an object's credentials secret
EditCredentialsSecret(o) ==
    /\ ~crashed
    /\ credSec[o] \in Passwords
    /\ credSec' = [credSec EXCEPT ![o] = ""]
    /\ SetLoc(o, [loc[o] EXCEPT !.external = TRUE])
    /\ UNCHANGED <<obj, targetSec, clusterCfg, cfgEdits, strategy, env, azure,
                   pc, result, nRec, prev, crashed>>
    /\ UNCHANGED <<store, call>>

\* the object whose whole reconcile is followed
Followed == {"pg1"}

Next ==
    \/ \E o \in Followed :
         \/ ReconcileLoad(o)
         \/ ReconcileStrategy(o)
         \/ CP_Finalizer(o)
         \/ CP_ClusterConfig(o)
         \/ CP_AuthEnvVars(o)
         \/ CP_ResourceClient(o)
         \/ CP_CredentialsSecret(o)
         \/ CP_GetPassword(o)
         \/ CP_ListInstances(o)
         \/ CP_CreateInstance(o)
         \/ CP_GetSubnet(o)
         \/ CP_UpdateSubnet(o)
         \/ CP_VnetRule(o)
         \/ DP_Delete(o)
         \/ ReconcileMaterialize(o)
         \/ ReconcileStatus(o)
         \/ UserDelete(o)
         \/ EditCredentialsSecret(o)
    \/ EditClusterConfig

Spec == Init /\ [][Next]_vars

\* The work queue honours a requeue result: a reconcile that is due is
\* eventually started.
SpecFair ==
    Init /\ [][Next]_vars /\ \A o \in Followed : WF_vars(ReconcileLoad(o))


(***************************************************************************)
(* Two objects reconciled at the same time by two workers of the process   *)
(* (at most one reconcile in flight per object), with an azure strategy.   *)
(* Each call is followed up to the construction of its Azure resource      *)
(* client, the last statement of CreatePostgres that reads the environment.*)
(***************************************************************************)
InitConcurrent ==
    /\ Init
    /\ strategy = "azure"
    /\ ~env.force.set
    /\ azure.endpoints = <<"Microsoft.Storage">>

NextConcurrent ==
    \/ \E o \in Objs :
         \/ ReconcileLoad(o)
         \/ ReconcileStrategy(o)
         \/ CP_Finalizer(o)
         \/ CP_ClusterConfig(o)
         \/ CP_AuthEnvVars(o)
         \/ CP_ResourceClient(o)
    \/ EditClusterConfig

SpecConcurrent == InitConcurrent /\ [][NextConcurrent]_vars


(***************************************************************************)
(* The helpers called on their own: the strategies ConfigMap manager       *)
(* (ConfigMapConfigManager.ReadStorageStrategy), the cluster configuration *)
(* manager, the provider selection and the reconcile interval.             *)
(***************************************************************************)
\* all sequences of at most n elements of S
ListsUpTo(S, n) == UNION {[1..k -> S] : k \in 0..n}

ResourceTypes == {"postgres", "redis"}
Tiers == {"development", "production"}

\* what the strategies ConfigMap holds under the key "postgres": nothing, a
\* text that is no JSON object, or a JSON object with an entry for some tiers
Payloads ==
    {[kind |-> "empty", tiers |-> {}], [kind |-> "malformed", tiers |-> {}]}
        \cup [kind : {"json"}, tiers : {{}, {"development"}, Tiers}]

\* the strategies ConfigMap: absent, or present with its data
StrategyCmValues == {Nil} \cup [postgres : Payloads]

\* cm.Data[string(rt)]: the empty string for a key the map does not have
DataOf(cm, rt) ==
    IF rt = "postgres" THEN cm.postgres ELSE [kind |-> "empty", tiers |-> {}]

\* the StrategyConfig stored for a tier
StrategyConfigOf(tier) == [RawStrategy |-> tier]

\* A slip of the manager: the ConfigMap read before is kept and used again.
StoreGet_Cached(cached, stored) == IF cached # Nil THEN cached ELSE stored

\* m.client.Get into a fresh ConfigMap: what is stored now
StoreGet(cached, stored) == stored

\* ConfigMapConfigManager.ReadStorageStrategy(ctx, rt, tier); getOK is
\* whether the API server answers, a ConfigMap that does not exist is the
\* NotFound error of the Get
ReadStorageStrategy(cached, stored, getOK, rt, tier) ==
    LET cm == StoreGet(cached, stored)
    IN  IF ~getOK \/ cm = Nil
        THEN [strategy |-> Nil, seen |-> Nil,
              err |-> "failed to get aws strategy config map"]
        ELSE IF DataOf(cm, rt).kind = "empty"
        THEN [strategy |-> Nil, seen |-> cm,
              err |-> "aws strategy for resource type is not defined"]
        ELSE IF DataOf(cm, rt).kind = "malformed"
        THEN [strategy |-> Nil, seen |-> cm,
              err |-> "failed to unmarshal strategy mapping for resource type"]
        ELSE [strategy |-> IF tier \in DataOf(cm, rt).tiers
                           THEN StrategyConfigOf(tier) ELSE Nil,
              seen |-> cm, err |-> NIL]

CallReadStorageStrategy ==
    /\ \E rt \in ResourceTypes, tier \in Tiers, getOK \in BOOLEAN :
         LET out == ReadStorageStrategy(store.seen, store.cm, getOK, rt, tier)
         IN  /\ call' = [fn |-> "ReadStorageStrategy", rt |-> rt, tier |-> tier,
                         getOK |-> getOK, stored |-> store.cm,
                         before |-> store.seen, out |-> out]
             /\ store' = [store EXCEPT !.seen = IF out.seen = Nil THEN @
                                                ELSE out.seen]
    /\ UNCHANGED <<reconcileVars, loc, clusterCfg, cfgEdits>>

CallGetClusterConfig ==
    /\ \E readOK \in BOOLEAN, nilOnErr \in BOOLEAN :
         call' = [fn |-> "GetClusterConfig", readOK |-> readOK,
                  stored |-> clusterCfg,
                  out |-> GetClusterConfig(clusterCfg, readOK, nilOnErr)]
    /\ UNCHANGED <<reconcileVars, loc, clusterCfg, cfgEdits, store>>

CallSelectProvider ==
    /\ \E list \in ListsUpTo(Providers, MaxProviders),
          s \in {"azure", "test", "aws"} :
         call' = [fn |-> "SelectProvider", list |-> list, strategy |-> s,
                  out |-> [index |-> SelectProviderIndex(list, s),
                           name |-> SelectProvider(list, s),
                           err |-> SelectProvider(list, s) = NIL]]
    /\ UNCHANGED <<reconcileVars, loc, clusterCfg, cfgEdits, store>>

\* values of ENV_FORCE_RECONCILE_TIMEOUT: unset, or a short text of digits,
\* signs and letters
EnvChars == {"4", "5", "-", "s"}

EnvValues ==
    {[set |-> FALSE, value |-> <<>>]}
        \cup [set : {TRUE}, value : ListsUpTo(EnvChars, MaxEnvLen)]

CallGetForcedReconcileTimeOrDefault ==
    /\ \E force \in EnvValues,
          defaultTo \in {Seconds(ProviderReconcileTime), Seconds(SuccessReconcileTime)} :
         call' = [fn |-> "GetForcedReconcileTimeOrDefault", force |-> force,
                  defaultTo |-> defaultTo,
                  out |-> GetForcedReconcileTimeOrDefault(force, defaultTo),
                  provider |-> GetReconcileTime(force)]
    /\ UNCHANGED <<reconcileVars, loc, clusterCfg, cfgEdits, store>>

(***************************************************************************)
(* resources.GeneratePassword: password.Generate(32, 10, 0, false, false)  *)
(* of github.com/sethvargo/go-password.  A text is a sequence of           *)
(* characters.  The bytes read from crypto/rand are the parameter draws;   *)
(* entropyOK is whether the reader delivers them.                          *)
(***************************************************************************)
LowerLetters ==
    <<"a", "b", "c", "d", "e", "f", "g", "h", "i", "j", "k", "l", "m",
      "n", "o", "p", "q", "r", "s", "t", "u", "v", "w", "x", "y", "z">>

UpperLetters ==
    <<"A", "B", "C", "D", "E", "F", "G", "H", "I", "J", "K", "L", "M",
      "N", "O", "P", "Q", "R", "S", "T", "U", "V", "W", "X", "Y", "Z">>

\* (the grave accent is written by its name)
Symbols ==
    <<"~", "!", "@", "#", "$", "%", "^", "&", "*", "(", ")", "_", "+", "grave",
      "-", "=", "{", "}", "|", "[", "]", "\\", ":", "\"", "<", ">", "?", ",",
      ".", "/">>

\* k characters drawn from an alphabet: a character already in the result is
\* drawn again unless repeats are allowed
Draw(alphabet, k, allowRepeat, draws) ==
    [i \in 1..k |->
        alphabet[((IF allowRepeat THEN draws * i ELSE draws + i)
                     % Len(alphabet)) + 1]]

\* randomInsert of every character: the places the characters end up at
Shuffle(s, draws) ==
    [i \in 1..Len(s) |-> s[((i + 5 * draws) % Len(s)) + 1]]

\* password.Generate(length, numDigits, numSymbols, noUpper, allowRepeat)
Generate(length, numDigits, numSymbols, noUpper, allowRepeat, draws, entropyOK) ==
    LET letters == IF noUpper THEN LowerLetters ELSE LowerLetters \o UpperLetters
        chars   == length - numDigits - numSymbols
    IN  IF chars < 0
        THEN [result |-> <<>>, err |-> "number of digits and symbols must be less than total length"]
        ELSE IF ~allowRepeat /\ chars > Len(letters)
        THEN [result |-> <<>>, err |-> "number of letters exceeds available letters and repeats are not allowed"]
        ELSE IF ~allowRepeat /\ numDigits > Len(Digits)
        THEN [result |-> <<>>, err |-> "number of digits exceeds available digits and repeats are not allowed"]
        ELSE IF ~allowRepeat /\ numSymbols > Len(Symbols)
        THEN [result |-> <<>>, err |-> "number of symbols exceeds available symbols and repeats are not allowed"]
        ELSE IF ~entropyOK /\ length > 0
        THEN [result |-> <<>>, err |-> "rand.Reader"]
        ELSE [result |-> Shuffle(Draw(letters, chars, allowRepeat, draws)
                                    \o Draw(Digits, numDigits, allowRepeat, draws)
                                    \o Draw(Symbols, numSymbols, allowRepeat, draws),
                                 draws),
              err |-> NIL]

\* A slip of the last argument: repeated characters allowed.
GeneratePassword_AllowRepeat(draws, entropyOK) ==
    LET g == Generate(32, 10, 0, FALSE, TRUE, draws, entropyOK)
    IN  IF g.err # NIL THEN [password |-> <<>>, err |-> "error generating password"]
        ELSE [password |-> g.result, err |-> NIL]

GeneratePassword(draws, entropyOK) ==
    LET g == Generate(32, 10, 0, FALSE, FALSE, draws, entropyOK)
    IN  IF g.err # NIL THEN [password |-> <<>>, err |-> "error generating password"]
        ELSE [password |-> g.result, err |-> NIL]

CallGeneratePassword ==
    /\ \E draws \in 0..MaxDraws, entropyOK \in BOOLEAN :
         call' = [fn |-> "GeneratePassword", draws |-> draws,
                  entropyOK |-> entropyOK,
                  before |-> IF call.fn = "GeneratePassword" THEN call.out
                             ELSE Nil,
                  out |-> GeneratePassword(draws, entropyOK)]
    /\ UNCHANGED <<reconcileVars, loc, clusterCfg, cfgEdits, store>>

(***************************************************************************)
(* resources.GetOrganizationTag, reading the environment variable          *)
(* TAG_KEY_PREFIX as os.LookupEnv returns it.                              *)
(***************************************************************************)
DefaultTagKeyPrefix == "integreatly.org/"

\* values of TAG_KEY_PREFIX: unset, set to the empty text, set to a prefix
TagEnvValues ==
    {[set |-> FALSE, value |-> ""]}
        \cup [set : {TRUE}, value : {"", "acme.io/", "integreatly.org/"}]

\* A slip of the lookup: os.Getenv, which cannot tell unset from empty.
GetOrganizationTag_EmptyIsDefault(tag) ==
    IF tag.value = "" THEN DefaultTagKeyPrefix ELSE tag.value

GetOrganizationTag(tag) ==
    IF ~tag.set THEN DefaultTagKeyPrefix ELSE tag.value

CallGetOrganizationTag ==
    /\ call' = [fn |-> "GetOrganizationTag", tag |-> env.tag,
                before |-> IF call.fn = "GetOrganizationTag" THEN call.out
                           ELSE NIL,
                out |-> GetOrganizationTag(env.tag)]
    /\ UNCHANGED <<reconcileVars, loc, clusterCfg, cfgEdits, store>>

\* TAG_KEY_PREFIX is set, changed or unset in the environment of the process
SetTagKeyPrefix ==
    /\ \E t \in TagEnvValues \ {env.tag} : env' = [env EXCEPT !.tag = t]
    /\ UNCHANGED <<obj, credSec, targetSec, strategy, azure, pc, result, nRec,
                   prev, crashed, loc, clusterCfg, cfgEdits, store, call>>

(***************************************************************************)
(* NewConfigMapConfigManager of the two provider packages: pkg is "azure"  *)
(* (pkg/providers/azure/config.go) or "openshift".                         *)
(***************************************************************************)
Packages == {"azure", "openshift"}

DefaultConfigMapName(pkg) ==
    IF pkg = "azure" THEN "cloud-provider-config"
    ELSE "cloud-resources-openshift-strategies"

DefaultConfigMapNamespace(pkg) ==
    IF pkg = "azure" THEN "openshift-config" ELSE "kube-system"

\* names and namespaces a caller passes
ConfigMapNames == {"", "cloud-provider-config", "my-strategies"}
ConfigMapNamespaces == {"", "kube-system", "my-namespace"}

\* A slip of the second test: the name is tested twice, the namespace never.
NewConfigMapConfigManager_NamespaceKept(pkg, cm, namespace) ==
    [configMapName |-> IF cm = "" THEN DefaultConfigMapName(pkg) ELSE cm,
     configMapNamespace |-> namespace]

NewConfigMapConfigManager(pkg, cm, namespace) ==
    [configMapName |-> IF cm = "" THEN DefaultConfigMapName(pkg) ELSE cm,
     configMapNamespace |-> IF namespace = "" THEN DefaultConfigMapNamespace(pkg)
                            ELSE namespace]

\* NewDefaultConfigMapConfigManager (azure), NewDefaultConfigManager (openshift)
NewDefaultConfigMapConfigManager(pkg) ==
    NewConfigMapConfigManager(pkg, DefaultConfigMapName(pkg),
                              DefaultConfigMapNamespace(pkg))

CallNewConfigMapConfigManager ==
    /\ \E pkg \in Packages, cm \in ConfigMapNames, namespace \in ConfigMapNamespaces :
         call' = [fn |-> "NewConfigMapConfigManager", pkg |-> pkg, cm |-> cm,
                  namespace |-> namespace,
                  out |-> NewConfigMapConfigManager(pkg, cm, namespace),
                  default |-> NewDefaultConfigMapConfigManager(pkg)]
    /\ UNCHANGED <<reconcileVars, loc, clusterCfg, cfgEdits, store>>

(***************************************************************************)
(* incrementCidrAddress(cidr, count) of pkg/providers/azure.  A text is a  *)
(* sequence of characters; net.ParseCIDR, strings.Split and fmt.Sprintf    *)
(* are modelled by what they do with such a text.                          *)
(***************************************************************************)
\* the place of the first occurrence of c in s, 0 when there is none
IndexByte(s, c) ==
    IF \E i \in 1..Len(s) : s[i] = c
    THEN CHOOSE i \in 1..Len(s) : s[i] = c /\ \A j \in 1..(i - 1) : s[j] # c
    ELSE 0

\* strings.Split(s, sep) for a separator of one character
RECURSIVE Split(_, _)
Split(s, sep) ==
    LET i == IndexByte(s, sep)
    IN  IF i = 0 THEN <<s>>
        ELSE <<SubSeq(s, 1, i - 1)>> \o Split(SubSeq(s, i + 1, Len(s)), sep)

\* a decimal number without sign of at most maxLen digits
IsNumber(s, maxLen) ==
    /\ Len(s) \in 1..maxLen
    /\ \A i \in 1..Len(s) : IsDigit(s[i])

\* the four bytes of a dotted IPv4 address, <<>> when the text is none
ParseIPv4(s) ==
    LET fields == Split(s, ".")
    IN  IF /\ Len(fields) = 4
           /\ \A i \in 1..4 : IsNumber(fields[i], 3) /\ DigitsValue(fields[i]) <= 255
        THEN [i \in 1..4 |-> DigitsValue(fields[i])]
        ELSE <<>>

\* whether the text is an IPv6 address: of the texts with a colon the model
\* knows the form <hex digits>:: only
ParseIPv6(s) ==
    /\ Len(s) >= 3
    /\ s[Len(s)] = ":" /\ s[Len(s) - 1] = ":"
    /\ \A i \in 1..(Len(s) - 2) :
          IsDigit(s[i]) \/ s[i] \in {"a", "b", "c", "d", "e", "f"}

\* net.ParseCIDR(s): address, "/", prefix length of at most 32 (IPv4) or 128
\* (IPv6) bits; ip4 is what To4() gives for the address, <<>> when it is nil
ParseCIDR(s) ==
    LET i    == IndexByte(s, "/")
        addr == SubSeq(s, 1, i - 1)
        mask == SubSeq(s, i + 1, Len(s))
        bad  == [err |-> TRUE, ip4 |-> <<>>, mask |-> 0]
    IN  IF i = 0 \/ ~IsNumber(mask, 3) THEN bad
        ELSE IF ParseIPv4(addr) # <<>>
        THEN IF DigitsValue(mask) <= 32
             THEN [err |-> FALSE, ip4 |-> ParseIPv4(addr), mask |-> DigitsValue(mask)]
             ELSE bad
        ELSE IF ParseIPv6(addr) /\ DigitsValue(mask) <= 128
        THEN [err |-> FALSE, ip4 |-> <<>>, mask |-> DigitsValue(mask)]
        ELSE bad

\* fmt.Sprintf("%v", b) of a number from 0 on
RECURSIVE FormatInt(_)
FormatInt(n) ==
    IF n < 10 THEN <<Digits[n + 1]>>
    ELSE FormatInt(n \div 10) \o <<Digits[(n % 10) + 1]>>

\* A slip of the type: the sum is taken in int, so it does not wrap at 256.
incrementCidrAddress_NoWrap(cidr, count) ==
    LET p         == ParseCIDR(cidr)
        splitCidr == Split(cidr, ".")
    IN  IF p.err THEN [cidr |-> cidr, err |-> TRUE, panic |-> FALSE]
        ELSE IF p.ip4 = <<>> THEN [cidr |-> <<>>, err |-> FALSE, panic |-> TRUE]
        ELSE [cidr |-> splitCidr[1] \o <<".">> \o FormatInt(p.ip4[2] + count)
                          \o <<".">> \o splitCidr[3] \o <<".">> \o splitCidr[4],
              err |-> FALSE, panic |-> FALSE]

\* count is a byte; ip[1] of the nil slice that To4() gives for an IPv6
\* address is an index out of range
incrementCidrAddress(cidr, count) ==
    LET p         == ParseCIDR(cidr)
        splitCidr == Split(cidr, ".")
    IN  IF p.err THEN [cidr |-> cidr, err |-> TRUE, panic |-> FALSE]
        ELSE IF p.ip4 = <<>> THEN [cidr |-> <<>>, err |-> FALSE, panic |-> TRUE]
        ELSE [cidr |-> splitCidr[1] \o <<".">>
                          \o FormatInt((p.ip4[2] + count) % 256)
                          \o <<".">> \o splitCidr[3] \o <<".">> \o splitCidr[4],
              err |-> FALSE, panic |-> FALSE]

\* IPv4 CIDR texts, texts net.ParseCIDR rejects, and an IPv6 CIDR text
CidrTexts ==
    {<<"1", "0", ".", "4", "0", ".", "0", ".", "2", "1", "2", "/", "2", "4">>,
     <<"1", "0", ".", "2", "5", "5", ".", "0", ".", "2", "1", "2", "/", "2", "4">>,
     <<"1", "0", ".", "0", ".", "0", ".", "0", "/", "1", "6">>,
     <<"1", "9", "2", ".", "1", "6", "8", ".", "1", ".", "7", "/", "3", "2">>}
        \cup {<<"1", "0", ".", "4", "0", ".", "0", ".", "2", "1", "2">>,
     <<"1", "0", ".", "4", "0", ".", "0", "/", "2", "4">>,
     <<"1", "0", ".", "2", "5", "6", ".", "0", ".", "1", "/", "2", "4">>,
     <<"1", "0", ".", "4", "x", ".", "0", ".", "1", "/", "2", "4">>,
     <<"1", "0", ".", "4", "0", ".", "0", ".", "2", "1", "2", "/", "3", "3">>,
     <<>>}
        \cup {<<"f", "e", "8", "0", ":", ":", "/", "6", "4">>}

\* values of the parameter count
CidrCounts == {0, 1, 3, 255}

CallIncrementCidrAddress ==
    /\ \E cidr \in CidrTexts, count \in CidrCounts :
         call' = [fn |-> "incrementCidrAddress", cidr |-> cidr, count |-> count,
                  out |-> incrementCidrAddress(cidr, count)]
    /\ UNCHANGED <<reconcileVars, loc, clusterCfg, cfgEdits, store>>

\* an administrator creates, rewrites or deletes the strategies ConfigMap
EditStrategyConfigMap ==
    /\ store.edits < MaxConfigEdits
    /\ \E c \in StrategyCmValues \ {store.cm} :
         store' = [store EXCEPT !.cm = c, !.edits = @ + 1]
    /\ UNCHANGED <<reconcileVars, loc, clusterCfg, cfgEdits, call>>

InitHelpers ==
    /\ obj = [o \in Objs |-> [exists |-> TRUE, deleting |-> FALSE,
                              finalizers |-> {}, phase |-> NIL]]
    /\ credSec = [o \in Objs |-> NIL]
    /\ targetSec = [o \in Objs |-> Nil]
    /\ clusterCfg \in ClusterCfgValues
    /\ cfgEdits = 0
    /\ strategy = "azure"
    /\ env = [sub |-> "", force |-> [set |-> FALSE, value |-> <<>>],
              tag |-> [set |-> FALSE, value |-> ""]]
    /\ azure = [servers |-> {}, endpoints |-> <<"Microsoft.Storage">>,
                rules |-> {}, created |-> [o \in Objs |-> 0],
                admin |-> [o \in Objs |-> NIL]]
    /\ pc = [o \in Objs |-> "idle"]
    /\ loc = [o \in Objs |-> LocInit]
    /\ result = [o \in Objs |-> Nil]
    /\ nRec = [o \in Objs |-> 0]
    /\ prev = [o \in Objs |-> Nil]
    /\ crashed = FALSE
    /\ store \in [cm : StrategyCmValues, edits : {0}, seen : {Nil}]
    /\ call = [fn |-> "none"]

\* the configuration managers read while administrators edit the ConfigMaps
NextConfig ==
    \/ CallReadStorageStrategy
    \/ CallGetClusterConfig
    \/ EditStrategyConfigMap
    \/ EditClusterConfig

SpecConfig == InitHelpers /\ [][NextConfig]_vars

\* the functions that read no ConfigMap
InitPure == InitHelpers /\ clusterCfg = Nil /\ store.cm = Nil

NextPure ==
    \/ CallSelectProvider
    \/ CallGetForcedReconcileTimeOrDefault
    \/ CallGeneratePassword
    \/ CallGetOrganizationTag
    \/ CallNewConfigMapConfigManager
    \/ CallIncrementCidrAddress
    \/ SetTagKeyPrefix

SpecPure == InitPure /\ [][NextPure]_vars


(***************************************************************************)
(* Properties.                                                             *)
(***************************************************************************)
\* CreatePostgres of o's reconcile returned an instance and a nil error
CreateSucceeded(o) ==
    pc[o] \in {"returned", "status", "done"} /\ loc[o].inst # Nil /\ ~loc[o].err

\* a provisioning step was issued in o's reconcile
Provisioned(o) ==
    \E i \in 1..Len(loc[o].calls) : loc[o].calls[i] \in ProvisioningCalls

\* the forced reconcile time is absent or does not parse as an integer
NoForcedReconcileTime == ~env.force.set \/ ParseInt(env.force.value).err

C2_FinalizerBeforeProvisioning ==
    \A o \in Objs :
        /\ Provisioned(o) => DefaultFinalizer \in obj[o].finalizers
        /\ loc[o].finalizerFailed =>
               /\ ~Provisioned(o)
               /\ loc[o].err /\ loc[o].inst = Nil
               /\ pc[o] = "done" => result[o].err

C2_Witness ==
    \E o \in Objs :
        /\ Called(o, "finalizer.persist")
        /\ Called(o, "credentials.create") /\ Called(o, "azure.createServer")
        /\ Called(o, "azure.createVnetRule")

C2_WitnessFailure ==
    \E o \in Objs : loc[o].finalizerFailed /\ pc[o] = "done"


\* C3 as stated: a delete that has not succeeded leaves the finalizer in place
\* and the reconcile reports the error with the short requeue, so that the
\* deletion is retried; a server is never left behind by an object that lost
\* its finalizer.
C3_FailedDeleteIsReportedAndRetried ==
    \A o \in Objs :
        /\ (o \in azure.servers /\ obj[o].exists)
               => DefaultFinalizer \in obj[o].finalizers
        /\ (Called(o, "provider.delete") /\ DefaultFinalizer \in obj[o].finalizers)
               => /\ pc[o] = "done"
                  /\ result[o] = [requeue |-> TRUE,
                                  after |-> Seconds(ErrorReconcileTime), err |-> TRUE]

C5_CreateIdempotent ==
    \A o \in Objs :
        /\ (loc[o].serverAtList /\ pc[o] # "cp_list")
               => ~Called(o, "azure.createServer") /\ loc[o].host = Fqdn(o)
        /\ CreateSucceeded(o)
               => loc[o].inst.Host = Fqdn(o) /\ o \in azure.servers
        /\ azure.created[o] <= 1

C5_Witness ==
    \E o \in Objs :
        /\ nRec[o] >= 2 /\ loc[o].serverAtList /\ CreateSucceeded(o)
        /\ azure.created[o] = 1

\* C6: a reconcile that follows another one of the same object, both without
\* a failing call and with no change from outside in between, ends with the
\* status phase the first one ended with and with the same target secret keys.
C6_ReconcileTwiceSamePhase ==
    \A o \in Objs :
        (/\ pc[o] = "done" /\ prev[o] # Nil /\ prev[o].clean
         /\ ~loc[o].fault /\ ~loc[o].external)
            => /\ obj[o].phase = prev[o].phase
               /\ DOMAIN targetSec[o] = DOMAIN prev[o].target

C6_Witness ==
    \E o \in Objs :
        /\ pc[o] = "done" /\ prev[o] # Nil /\ prev[o].clean
        /\ ~loc[o].fault /\ ~loc[o].external
        /\ obj[o].phase = "Complete" /\ prev[o].phase = "Complete"
        /\ targetSec[o] # Nil /\ targetSec[o] = prev[o].target

\* C7 as stated: no credentials or target secret is written in a reconcile
\* whose Create returned an error, the success status is persisted only after
\* the target secret was written, and a failed target secret write fails the
\* reconcile.
C7_NoSecretWriteOnCreateError ==
    \A o \in Objs :
        /\ loc[o].err
               => ~Called(o, "credentials.created") /\ ~Called(o, "target.write")
        /\ Called(o, "status.persist") => Called(o, "target.write")
        /\ (pc[o] = "done" /\ Called(o, "target.write") /\ ~Called(o, "status.persist"))
               => result[o].err

\* C8 as stated: CreatePostgres does not return a nil error after a call to
\* Azure inside it failed.
C8_AzureFailureIsReturned ==
    \A o \in Objs :
        (loc[o].azureFailed /\ pc[o] \in {"returned", "status", "done"})
            => loc[o].err

\* the panics whose place is not in the source: the ConfigMap pointer that
\* resources.GetConfigMapOrDefault returns with an error, and the
\* reconciler's use of a nil instance
PanicOutsideSource == {"clusterConfigMap.Data", "instance.DeploymentDetails"}

\* C9 as stated, for the failures handled by the source: no failure met
\* during the provider's Create or Delete ends the reconciling process with
\* a panic.
C9_NoPanic ==
    \A o \in Objs : pc[o] = "panicked" => loc[o].panicAt \in PanicOutsideSource

\* C10 as stated: the Azure client of each call is built from the
\* credentials that call read for its own object.
C10_ClientFromOwnCredentials ==
    \A o \in Objs :
        (loc[o].clientSub \in Subscriptions /\ loc[o].cfgSub \in Subscriptions)
            => loc[o].clientSub = loc[o].cfgSub

C12_ConfigErrorsGiveRetry ==
    \A o \in Objs :
        (/\ loc[o].found /\ pc[o] \notin {"idle", "strategy"}
         /\ loc[o].strategyReadFailed \/ strategy # "azure")
            => /\ pc[o] = "done" /\ loc[o].calls = <<>>
               /\ result[o].requeue
               /\ result[o].after = Seconds(30)

C12_Witness ==
    \E o \in Objs :
        /\ loc[o].found /\ pc[o] = "done" /\ ~loc[o].strategyReadFailed
        /\ strategy = "aws" /\ result[o].requeue
        /\ env.force.set /\ ~ParseInt(env.force.value).err

\* C13: a reconcile that did not find its object has ended with no error and
\* no requeue, and has made no finalizer, provider or secret call.
C13_NotFoundIsTerminalSuccess ==
    \A o \in Objs :
        (pc[o] # "idle" /\ ~loc[o].found)
            => /\ pc[o] = "done"
               /\ ~result[o].err /\ ~result[o].requeue
               /\ loc[o].calls = <<>>

C13_Witness ==
    \E o \in Objs :
        /\ pc[o] = "done" /\ ~loc[o].found /\ ~obj[o].exists
        /\ nRec[o] >= 1 /\ ~result[o].requeue

\* C14: a reconcile of an object that exists and is not being deleted, once
\* completed (with or without error), is followed by another reconcile of
\* that object, as long as the work queue delivers reconciles.
C14_AlwaysReconciledAgain ==
    \A o \in Followed : \A n \in 1..(MaxReconciles - 1) :
        (/\ pc[o] = "done" /\ loc[o].found /\ nRec[o] = n
         /\ obj[o].exists /\ ~obj[o].deleting)
            ~> (nRec[o] > n)

C14_Witness ==
    \E o \in Followed :
        /\ nRec[o] >= 2 /\ prev[o] # Nil /\ prev[o].phase = "Failed"
        /\ obj[o].exists /\ ~obj[o].deleting /\ pc[o] = "done"

\* the places of the providers of a list that support a strategy
Supporting(list, s) == {i \in 1..Len(list) : ProviderSupports(list[i], s)}

\* C15: the provider selection returns the first provider of the list whose
\* SupportsStrategy accepts the strategy, whether one or several do, and an
\* error when none does or the list is empty.
C15_SelectFirstSupporting ==
    call.fn = "SelectProvider" =>
        LET m == Supporting(call.list, call.strategy)
        IN  /\ m = {} => call.out.err /\ call.out.index = 0 /\ call.out.name = NIL
            /\ m # {} => /\ ~call.out.err
                         /\ call.out.index \in m
                         /\ \A j \in m : call.out.index <= j
                         /\ call.out.name = call.list[call.out.index]

C15_Witness ==
    /\ call.fn = "SelectProvider"
    /\ Cardinality(Supporting(call.list, call.strategy)) >= 2
    /\ call.list[1] = testProviderName
    /\ call.list[2] = earlierProviderName
    /\ call.out.index = 2 /\ call.out.name = earlierProviderName

\* C16 as stated: a configuration manager asked for a ConfigMap that does not
\* exist, the API server answering, returns no error (and the cluster
\* configuration manager the empty default).
C16_MissingConfigGivesDefault ==
    /\ (call.fn = "ReadStorageStrategy" /\ call.getOK /\ call.stored = Nil)
           => call.out.err = NIL
    /\ (call.fn = "GetClusterConfig" /\ call.readOK /\ call.stored = Nil)
           => ~call.out.err /\ call.out.cm = buildDefaultConfigMap

\* C17 as stated: ReadStorageStrategy never returns a nil strategy together
\* with a nil error.
C17_NoMappingIsAnError ==
    call.fn = "ReadStorageStrategy"
        => ~(call.out.strategy = Nil /\ call.out.err = NIL)

\* C18 as stated: a CreatePostgres that read a cluster configuration whose
\* payload is no JSON document does not go on with the zero-valued
\* configuration: it asks Azure for no server and does not complete.
C18_MalformedConfigIsReturned ==
    \A o \in Objs :
        loc[o].cfgMalformed
            => ~Called(o, "azure.createServer") /\ loc[o].msg # "completed"

\* C19: a read through a configuration manager that the API server answers
\* returns the ConfigMap as it is stored at the time of that read, whatever
\* an earlier read returned.
C19_ReadsAreFresh ==
    /\ (call.fn = "ReadStorageStrategy" /\ call.getOK /\ call.stored # Nil)
           => call.out.seen = call.stored
    /\ (call.fn = "GetClusterConfig" /\ call.readOK /\ call.stored # Nil)
           => call.out.cm = call.stored

C19_Witness ==
    /\ call.fn = "ReadStorageStrategy" /\ call.getOK
    /\ call.before # Nil /\ call.stored # Nil /\ call.before # call.stored
    /\ store.edits >= 1 /\ call.out.seen = store.cm

\* C20: GetForcedReconcileTimeOrDefault returns the default it was given
\* when ENV_FORCE_RECONCILE_TIMEOUT is not set or is no integer.
C20_DefaultWhenAbsentOrUnparsable ==
    (/\ call.fn = "GetForcedReconcileTimeOrDefault"
     /\ ~call.force.set \/ ParseInt(call.force.value).err)
        => call.out = call.defaultTo

C20_Witness ==
    /\ call.fn = "GetForcedReconcileTimeOrDefault"
    /\ call.force.set /\ call.force.value = <<"4", "s">>
    /\ call.defaultTo = Seconds(60) /\ call.out = Seconds(60)

\* C21: when ENV_FORCE_RECONCILE_TIMEOUT is set to an integer n,
\* GetForcedReconcileTimeOrDefault and the provider's GetReconcileTime return
\* n seconds.
C21_OverrideIsSeconds ==
    (/\ call.fn = "GetForcedReconcileTimeOrDefault"
     /\ call.force.set /\ ~ParseInt(call.force.value).err)
        => /\ call.out = Seconds(ParseInt(call.force.value).val)
           /\ call.provider = Seconds(ParseInt(call.force.value).val)

\* the characters of a text that are decimal digits
DigitCount(s) == Cardinality({i \in 1..Len(s) : IsDigit(s[i])})

NoRepeatedCharacter(s) == \A i, j \in 1..Len(s) : s[i] = s[j] => i = j

\* C22: every string GeneratePassword returns has exactly 32 characters, at
\* least 10 of them digits, no character twice, and two calls never return
\* the same string.
C22_PasswordShapeAndDistinct ==
    (call.fn = "GeneratePassword" /\ call.out.err = NIL)
        => /\ Len(call.out.password) = 32
           /\ DigitCount(call.out.password) >= 10
           /\ NoRepeatedCharacter(call.out.password)
           /\ call.before # call.out

\* C22, amended: every string GeneratePassword returns has exactly 32
\* characters, at least 10 of them digits, and no character twice; a failed
\* generation returns the empty string with an error.
C22_PasswordShape ==
    call.fn = "GeneratePassword"
        => IF call.out.err = NIL
           THEN /\ Len(call.out.password) = 32
                /\ DigitCount(call.out.password) >= 10
                /\ NoRepeatedCharacter(call.out.password)
           ELSE call.out.password = <<>> /\ ~call.entropyOK

C22_Witness ==
    /\ call.fn = "GeneratePassword" /\ call.out.err = NIL
    /\ call.before # Nil /\ call.before.err = NIL
    /\ call.before # call.out
    /\ Len(call.out.password) = 32 /\ DigitCount(call.out.password) = 10

\* C23: when the password generation fails, CreatePostgres returns an error
\* for that attempt (it does not end the process), and the credentials secret
\* is neither created nor given an empty password.
C23_GenerationFailureIsReturned ==
    \A o \in Objs :
        loc[o].generateFailed
            => /\ ~crashed /\ loc[o].panicAt = ""
               /\ pc[o] = "returned" => loc[o].err /\ loc[o].inst = Nil
               /\ credSec[o] # ""
               /\ ~Called(o, "credentials.created")

\* how often Microsoft.Sql is among the service endpoints
SqlEndpointCount(endpoints) ==
    Cardinality({i \in 1..Len(endpoints) : endpoints[i] = "Microsoft.Sql"})

\* C24: CreatePostgres adds the Microsoft.Sql service endpoint to the worker
\* subnet only when it is absent: after a call whose subnet update succeeded
\* the list contains it exactly once, however many calls went before, and no
\* step removes or moves an endpoint that was in the list.
C24_SqlEndpointOnce ==
    /\ [](\A o \in Objs :
            (Called(o, "azure.updateSubnet") /\ ~loc[o].azureFailed)
                => SqlEndpointCount(azure.endpoints) = 1)
    /\ [][/\ Len(azure.endpoints') >= Len(azure.endpoints)
          /\ \A i \in 1..Len(azure.endpoints) :
                azure.endpoints'[i] = azure.endpoints[i]]_vars

C24_Witness ==
    \E o \in Objs :
        /\ nRec[o] = 2 /\ prev[o] # Nil /\ prev[o].clean /\ prev[o].target # Nil
        /\ loc[o].serverAtList
        /\ Called(o, "azure.updateSubnet") /\ ~loc[o].azureFailed
        /\ azure.endpoints = <<"Microsoft.Storage", "Microsoft.Sql">>

\* C25: GetOrganizationTag returns the value of TAG_KEY_PREFIX whenever the
\* variable is set, the empty value included, and "integreatly.org/" when it
\* is not set; the variable is read at every call, so the result is the one
\* for the environment at the time of the call.
C25_TagPrefixFromEnvironment ==
    call.fn = "GetOrganizationTag"
        => /\ call.tag.set => call.out = call.tag.value
           /\ ~call.tag.set => call.out = "integreatly.org/"
           /\ (call.tag.set /\ call.tag.value # "integreatly.org/")
                  => call.out # "integreatly.org/"
           /\ call.tag = env.tag
                  => call.out = IF env.tag.set THEN env.tag.value
                                ELSE "integreatly.org/"

C25_Witness ==
    /\ call.fn = "GetOrganizationTag"
    /\ call.before = "integreatly.org/"
    /\ call.tag = [set |-> TRUE, value |-> ""] /\ call.out = ""

\* C26: across repeated CreatePostgres calls for one resource the password
\* is stable: no call replaces the password of a credentials secret that
\* exists, and the password in the DeploymentDetails returned, like the one
\* the Azure server was created with, is the one the first call stored.
C26_PasswordStable ==
    /\ [](\A o \in Objs :
            /\ (azure.admin[o] # NIL /\ credSec[o] \in Passwords)
                   => azure.admin[o] = credSec[o]
            /\ (CreateSucceeded(o) /\ azure.admin[o] # NIL)
                   => loc[o].inst.Password = azure.admin[o])
    /\ [][\A o \in Objs :
            credSec[o] \in Passwords => credSec'[o] \in {credSec[o], ""}]_vars

C26_Witness ==
    \E o \in Objs :
        /\ nRec[o] = 2 /\ CreateSucceeded(o) /\ loc[o].serverAtList
        /\ prev[o] # Nil /\ prev[o].target # Nil
        /\ prev[o].target.Password = "pwX"
        /\ credSec[o] = "pwX" /\ azure.admin[o] = "pwX"
        /\ loc[o].inst.Password = "pwX"

\* C27: CreatePostgres returns a nil instance only together with a non-nil
\* error: on every early exit (finalizer, secret create/update, secret read,
\* empty password) the error is non-nil and no Azure server creation was
\* issued.
C27_NilInstanceHasError ==
    \A o \in Objs :
        (loc[o].msg # "" /\ loc[o].inst = Nil)
            => loc[o].err /\ ~Called(o, "azure.createServer")

\* C28: NewConfigMapConfigManager never yields a manager with an empty
\* ConfigMap name or namespace: an empty argument is replaced by the package
\* default, a non-empty argument is kept as given.
C28_ManagerNamesNeverEmpty ==
    call.fn = "NewConfigMapConfigManager"
        => /\ call.out.configMapName # "" /\ call.out.configMapNamespace # ""
           /\ call.out.configMapName =
                  IF call.cm # "" THEN call.cm
                  ELSE IF call.pkg = "azure" THEN "cloud-provider-config"
                  ELSE "cloud-resources-openshift-strategies"
           /\ call.out.configMapNamespace =
                  IF call.namespace # "" THEN call.namespace
                  ELSE IF call.pkg = "azure" THEN "openshift-config"
                  ELSE "kube-system"
           /\ call.default.configMapName # ""
           /\ call.default.configMapNamespace # ""

C28_Witness ==
    /\ call.fn = "NewConfigMapConfigManager" /\ call.pkg = "azure"
    /\ call.cm = "my-strategies" /\ call.namespace = ""
    /\ call.out = [configMapName |-> "my-strategies",
                   configMapNamespace |-> "openshift-config"]

====
